---- MODULE Spec2Model ----
(***************************************************************************)
(* Model of src/main.js: the JUnit 4 autograding action.  The program      *)
(* reads its inputs, runs the setup command, the build command and the     *)
(* test-run command in that order, and publishes one result through        *)
(* core.setOutput('result', ...).  Text is modelled as TLA+ strings and    *)
(* the regular expressions of the source are translated one by one into    *)
(* operators over character positions (1-based).                           *)
(***************************************************************************)
EXTENDS Integers, Sequences, FiniteSets, TLC

VARIABLES pc, inputs, started, rs, testCount, errorCount, table, outputs

vars == <<pc, inputs, started, rs, testCount, errorCount, table, outputs>>

(***************************************************************************)
(* Bounds of the model.                                                    *)
(***************************************************************************)
\* Longest marker line ("dot line") of the sweep over every marker line.
MaxMarker == 5
\* Largest number of numbered failure blocks in one runner output.
MaxBlocks == 2

(***************************************************************************)
(* Characters and strings (String.prototype / RegExp character classes).   *)
(* In the comments .{0,} is written for the regular expression .* of the   *)
(* source.                                                                 *)
(***************************************************************************)
\* s[i] as a one-character string, "" outside the string.
Ch(s, i) == IF i >= 1 /\ i <= Len(s) THEN SubSeq(s, i, i) ELSE ""

\* s.substring(i-1, j) for 1-based inclusive positions; "" when i > j.
Sub(s, i, j) == IF i > j \/ i > Len(s) THEN "" ELSE SubSeq(s, i, j)

\* The white space of JavaScript beyond the escapes of a TLA+ string: the
\* line tabulation U+000B, the no-break space U+00A0, the Ogham space mark
\* U+1680 and the byte order mark U+FEFF, each written as the character
\* itself.
LineTabulation == ""
NoBreakSpace   == " "
OghamSpaceMark == " "
ByteOrderMark  == "﻿"

\* The regular expression class \s and the characters trim() removes
\* (WhiteSpace and LineTerminator of ECMAScript).  The remaining members of
\* the class, U+2000 to U+200A, U+2028, U+2029, U+202F, U+205F and U+3000,
\* cannot be written in a string of this module, so no text of the model
\* holds them.
IsSpace(c) ==
    c \in {" ", "\t", "\n", "\r", "\f",
           LineTabulation, NoBreakSpace, OghamSpaceMark, ByteOrderMark}

\* The regular expression class \d.
IsDigit(c) == c \in {"0", "1", "2", "3", "4", "5", "6", "7", "8", "9"}

\* The characters the regular expression . does not match (of the line
\* terminators U+2028 and U+2029 no text of the model holds one).
IsLineTerm(c) == c \in {"\n", "\r"}

\* A literal of a regular expression matched at position i.
StartsAt(s, i, lit) ==
    /\ i >= 1
    /\ i + Len(lit) - 1 <= Len(s)
    /\ SubSeq(s, i, i + Len(lit) - 1) = lit

UpperLetters == "ABCDEFGHIJKLMNOPQRSTUVWXYZ"
LowerLetters == "abcdefghijklmnopqrstuvwxyz"

\* One character folded to lower case (the i flag of a regular expression).
LowerCh(c) ==
    IF \E k \in 1..Len(UpperLetters) : Ch(UpperLetters, k) = c
    THEN Ch(LowerLetters, CHOOSE k \in 1..Len(UpperLetters) : Ch(UpperLetters, k) = c)
    ELSE c

RECURSIVE LowerStr(_)
LowerStr(s) == IF s = "" THEN "" ELSE LowerCh(Head(s)) \o LowerStr(Tail(s))

\* A literal matched at position i under the i flag (lit is given in lower case).
StartsAtCI(s, i, lit) ==
    /\ i >= 1
    /\ i + Len(lit) - 1 <= Len(s)
    /\ LowerCh(Ch(s, i)) = Ch(lit, 1)
    /\ LowerStr(SubSeq(s, i, i + Len(lit) - 1)) = lit

\* \s* from position i: the first position at or after i that holds no space.
RECURSIVE SkipSpaces(_, _)
SkipSpaces(s, i) == IF IsSpace(Ch(s, i)) THEN SkipSpaces(s, i + 1) ELSE i

\* \d* from position i: the first position at or after i that holds no digit.
RECURSIVE SkipDigits(_, _)
SkipDigits(s, i) == IF IsDigit(Ch(s, i)) THEN SkipDigits(s, i + 1) ELSE i

\* .* from position i: the first position at or after i that holds a line
\* terminator, Len(s) + 1 when there is none.
RECURSIVE LineEnd(_, _)
LineEnd(s, i) ==
    IF i > Len(s) \/ IsLineTerm(Ch(s, i)) THEN i ELSE LineEnd(s, i + 1)

RECURSIVE TrimStart(_)
TrimStart(s) == IF s # "" /\ IsSpace(Head(s)) THEN TrimStart(Tail(s)) ELSE s

RECURSIVE TrimEnd(_)
TrimEnd(s) ==
    IF s # "" /\ IsSpace(Ch(s, Len(s))) THEN TrimEnd(Sub(s, 1, Len(s) - 1)) ELSE s

\* String.prototype.trim
Trim(s) == TrimEnd(TrimStart(s))

\* s.split('\n')[0]
FirstLine(s) ==
    IF \E i \in 1..Len(s) : Ch(s, i) = "\n"
    THEN Sub(s, 1, (CHOOSE i \in 1..Len(s) :
                      /\ Ch(s, i) = "\n"
                      /\ \A j \in 1..(i - 1) : Ch(s, j) # "\n") - 1)
    ELSE s

\* The number of characters of s that are in the set cs.
RECURSIVE CountIn(_, _)
CountIn(s, cs) ==
    IF s = "" THEN 0
    ELSE (IF Head(s) \in cs THEN 1 ELSE 0) + CountIn(Tail(s), cs)

Max(S) == CHOOSE x \in S : \A y \in S : y <= x
Min(S) == CHOOSE x \in S : \A y \in S : x <= y

(***************************************************************************)
(* /version\s*\d+\.\d+(\.\d+)\r?\n(.{0,}?)(\r?\n|$)/g  (main.js 170 and 223)  *)
(***************************************************************************)
\* The match attempted at position i: [ok, dots], dots being group 2.
VersionAt(s, i) ==
    LET b == SkipSpaces(s, i + 7)
        c == SkipDigits(s, b)
        d == SkipDigits(s, c + 1)
        e == SkipDigits(s, d + 1)
        f == IF Ch(s, e) = "\r" THEN e + 1 ELSE e
        h == LineEnd(s, f + 1)
    IN  IF /\ StartsAt(s, i, "version")
           /\ c > b /\ Ch(s, c) = "."
           /\ d > c + 1 /\ Ch(s, d) = "."
           /\ e > d + 1
           /\ Ch(s, f) = "\n"
           /\ \/ h > Len(s)
              \/ Ch(s, h) = "\n"
              \/ Ch(s, h) = "\r" /\ Ch(s, h + 1) = "\n"
        THEN [ok |-> TRUE, dots |-> Sub(s, f + 1, h - 1)]
        ELSE [ok |-> FALSE, dots |-> ""]

\* re.exec(s): the leftmost match, or null ([ok |-> FALSE]).
ReExec(s) ==
    LET I == {i \in 1..Len(s) : Ch(s, i) = "v" /\ VersionAt(s, i).ok}
    IN  IF I = {} THEN [ok |-> FALSE, dots |-> ""] ELSE VersionAt(s, Min(I))

(***************************************************************************)
(* stdOut.split(/^\d+\).*$/m) and failures.shift()  (main.js 259-260)      *)
(***************************************************************************)
\* /^\d+\).*$/m matches at position q: q starts a line and holds digits and ")".
IsHeaderAt(s, q) ==
    /\ q = 1 \/ IsLineTerm(Ch(s, q - 1))
    /\ IsDigit(Ch(s, q))
    /\ Ch(s, SkipDigits(s, q)) = ")"

\* The position after the header that starts at q (its .* runs to the line end).
HeaderEnd(s, q) == LineEnd(s, SkipDigits(s, q) + 1)

\* The segments of s from the segment start p on: the text up to the next
\* header, then the segments after that header.
RECURSIVE SplitFrom(_, _)
SplitFrom(s, p) ==
    LET Q == {q \in p..Len(s) : IsDigit(Ch(s, q)) /\ IsHeaderAt(s, q)}
    IN  IF Q = {} THEN <<Sub(s, p, Len(s))>>
        ELSE <<Sub(s, p, Min(Q) - 1)>> \o SplitFrom(s, HeaderEnd(s, Min(Q)))

\* stdOut.split(/^\d+\).*$/m)
SplitHeaders(s) == SplitFrom(s, 1)

\* failures after failures.shift(): the text before the first header is dropped.
Failures(s) == Tail(SplitHeaders(s))

(***************************************************************************)
(* /expected\s*:\s*<(.{0,})>\s*but was\s*:\s*<(.{0,})>/g  (main.js 264) and the  *)
(* same tail of the regular expression of main.js 266.                     *)
(***************************************************************************)
\* >\s*but was\s*:\s*<(.{0,})> with its first ">" at position j: lt is the
\* position of the second "<", gt the position of the last ">" of that line
\* (the group is greedy).
ButWasAt(f, j) ==
    LET c  == SkipSpaces(f, j + 1)
        d  == SkipSpaces(f, c + 7)
        e  == SkipSpaces(f, d + 1)
        K  == {k \in (e + 1)..(LineEnd(f, e + 1) - 1) : Ch(f, k) = ">"}
    IN  IF /\ Ch(f, j) = ">"
           /\ StartsAt(f, c, "but was")
           /\ Ch(f, d) = ":"
           /\ Ch(f, e) = "<"
           /\ K # {}
        THEN [ok |-> TRUE, lt |-> e, gt |-> Max(K)]
        ELSE [ok |-> FALSE, lt |-> 0, gt |-> 0]

\* expected\s*:\s*<(.{0,})>... with "expected" at position m.  The first group is
\* greedy: it ends at the last ">" of its line after which the rest matches.
ExpectedAt(f, m) ==
    LET a == SkipSpaces(f, m + 8)
        b == SkipSpaces(f, a + 1)
        J == {j \in (b + 1)..(LineEnd(f, b + 1) - 1) : ButWasAt(f, j).ok}
    IN  IF /\ StartsAt(f, m, "expected")
           /\ Ch(f, a) = ":"
           /\ Ch(f, b) = "<"
           /\ J # {}
        THEN LET j == Max(J)
                 t == ButWasAt(f, j)
             IN  [ok |-> TRUE, expected |-> Sub(f, b + 1, j - 1),
                  actual |-> Sub(f, t.lt + 1, t.gt - 1), end |-> t.gt]
        ELSE [ok |-> FALSE, expected |-> "", actual |-> "", end |-> 0]

\* failure.match(/expected\s*:\s*<(.{0,})>\s*but was\s*:\s*<(.{0,})>/g) is not null.
HasExpectedShape(f) ==
    \E m \in 1..Len(f) : Ch(f, m) = "e" /\ ExpectedAt(f, m).ok

(***************************************************************************)
(* /(AssertionError|ComparisonFailure):(.{0,})expected...<(.{0,})>/g             *)
(* (main.js 266)                                                           *)
(***************************************************************************)
\* The position after "AssertionError:" or "ComparisonFailure:" at i, else 0.
KindEnd(f, i) ==
    IF StartsAt(f, i, "AssertionError:") THEN i + 15
    ELSE IF StartsAt(f, i, "ComparisonFailure:") THEN i + 18
    ELSE 0

\* The match attempted at position i.  Group 2 is greedy: "expected" is taken
\* at the last position of the line from which the rest matches.
KindAt(f, i) ==
    LET g == KindEnd(f, i)
        M == {m \in g..(LineEnd(f, g) - 1) : Ch(f, m) = "e" /\ ExpectedAt(f, m).ok}
    IN  IF g > 0 /\ M # {}
        THEN LET m == Max(M)
                 x == ExpectedAt(f, m)
             IN  [ok |-> TRUE, msg |-> Sub(f, g, m - 1), expected |-> x.expected,
                  actual |-> x.actual, end |-> x.end]
        ELSE [ok |-> FALSE, msg |-> "", expected |-> "", actual |-> "", end |-> 0]

\* failure.matchAll(...) from position p: the matches, leftmost first, each
\* search resuming after the previous match.
RECURSIVE MatchAll(_, _)
MatchAll(f, p) ==
    LET I == {i \in p..Len(f) : Ch(f, i) \in {"A", "C"} /\ KindAt(f, i).ok}
    IN  IF I = {} THEN <<>>
        ELSE LET r == KindAt(f, Min(I)) IN <<r>> \o MatchAll(f, r.end + 1)

(***************************************************************************)
(* The message of a failure without the expected shape (main.js 284-293)   *)
(***************************************************************************)
\* msg.replace(/java\.lang\.(.{0,}):/i, ''): the leftmost "java.lang." that a
\* colon follows on its line is removed together with everything up to the
\* last such colon (the group is greedy).
ReplaceJavaLang(msg) ==
    LET Colons(i) == {c \in (i + 10)..(LineEnd(msg, i + 10) - 1) : Ch(msg, c) = ":"}
        I == {i \in 1..Len(msg) : StartsAtCI(msg, i, "java.lang.") /\ Colons(i) # {}}
    IN  IF I = {} THEN msg
        ELSE LET i == Min(I)
             IN  Sub(msg, 1, i - 1) \o Sub(msg, Max(Colons(i)) + 1, Len(msg))

TimedOutPrefix == "org.junit.runners.model.testtimedoutexception:"

\* msg.replace(/org\.junit\.runners\.model\.TestTimedOutException:/i, '')
ReplaceTimedOut(msg) ==
    LET I == {i \in 1..Len(msg) : StartsAtCI(msg, i, TimedOutPrefix)}
    IN  IF I = {} THEN msg
        ELSE LET i == Min(I)
             IN  Sub(msg, 1, i - 1) \o Sub(msg, i + Len(TimedOutPrefix), Len(msg))

\* msg after the loop over reReplace.
FallbackMessage(failure) ==
    Trim(ReplaceTimedOut(Trim(ReplaceJavaLang(Trim(FirstLine(Trim(failure)))))))

(***************************************************************************)
(* The rows of the failure table (main.js 262-303)                         *)
(***************************************************************************)
\* The table.push of main.js 270 for one match: three cells.
MatchRow(m) ==
    <<IF Trim(m.msg) = "" THEN "Test failed" ELSE Trim(m.msg), m.expected, m.actual>>

\* The rows of the loop over matches (main.js 268-272).
RECURSIVE MatchRows(_)
MatchRows(ms) ==
    IF ms = <<>> THEN <<>> ELSE <<MatchRow(Head(ms))>> \o MatchRows(Tail(ms))

\* The rows one failure adds to the table.  matchAll returns an iterator,
\* which is never falsy: the else branch of main.js 273-279 is never taken,
\* and a failure with the expected shape and no match adds no row.
FailureRows(failure) ==
    IF HasExpectedShape(failure)
    THEN MatchRows(MatchAll(failure, 1))
    ELSE <<<<FallbackMessage(failure)>>>>

\* The rows of the table after the loop over failures.
RECURSIVE TableRows(_)
TableRows(failures) ==
    IF failures = <<>> THEN <<>>
    ELSE FailureRows(Head(failures)) \o TableRows(Tail(failures))

\* s.replace(/(?:\r\n|\r|\n)/g, '<br>')
RECURSIVE ReplaceBreaks(_)
ReplaceBreaks(s) ==
    IF s = "" THEN ""
    ELSE IF StartsAt(s, 1, "\r\n") THEN "<br>" \o ReplaceBreaks(Sub(s, 3, Len(s)))
    ELSE IF IsLineTerm(Head(s)) THEN "<br>" \o ReplaceBreaks(Tail(s))
    ELSE Head(s) \o ReplaceBreaks(Tail(s))

\* What one row adds to htmlTable (main.js 271 and 299).
HtmlRow(row) ==
    IF Len(row) = 3
    THEN "<tr><td>" \o row[1] \o "</td><td>" \o ReplaceBreaks(Trim(row[2]))
         \o "</td><td>" \o ReplaceBreaks(Trim(row[3])) \o "</td></tr>"
    ELSE "<tr><td colspan=\"3\">" \o row[1] \o "</td></tr>"

RECURSIVE HtmlRows(_)
HtmlRows(rows) ==
    IF rows = <<>> THEN "" ELSE HtmlRow(Head(rows)) \o HtmlRows(Tail(rows))

\* htmlTable after main.js 304.
HtmlTable(rows) ==
    "<table><thead><tr><th>Message</th><th>Expected</th><th>Actual</th></tr></thead><tbody>"
    \o HtmlRows(rows) \o "</tbody></table>"

(***************************************************************************)
(* Numbers.  The numbers of JavaScript are IEEE 754 doubles: testCount,    *)
(* errorCount and a whole maxScore are integers a double holds exactly,    *)
(* the quotient and the product of main.js 233 are rounded to the nearest  *)
(* double (a tie to the even one), and toFixed(2) of main.js 234 reads the *)
(* exact value of the double.  A double other than 0 is a sign, the bits   *)
(* of its significand from the leading 1 on, and the exponent of that      *)
(* leading bit; a score is kept in hundredths of a point.                  *)
(***************************************************************************)
Abs(x) == IF x < 0 THEN -x ELSE x

\* The number of bits of the significand of a double.
Precision == 53

\* The double 0.
Zero == [sign |-> 0, bits |-> <<>>, exp |-> 0]

\* floor(log2(a / d)) for a > 0 and d > 0.
RECURSIVE Exponent(_, _)
Exponent(a, d) ==
    IF a >= d
    THEN (IF a >= 2 * d THEN 1 + Exponent(a, 2 * d) ELSE 0)
    ELSE Exponent(2 * a, d) - 1

RECURSIVE Pow2(_)
Pow2(n) == IF n <= 0 THEN 1 ELSE 2 * Pow2(n - 1)

\* A significand is also read in digits of eight bits, so that a division
\* or a product takes one step for each digit.
DigitBits == 8
Base      == 256

\* The next n digits of r / d after the point, 0 <= r < d, and the remainder
\* left after them.
RECURSIVE QuotientDigits(_, _, _)
QuotientDigits(r, d, n) ==
    IF n = 0 THEN [digits |-> <<>>, rem |-> r]
    ELSE LET rest == QuotientDigits((r * Base) % d, d, n - 1)
         IN  [digits |-> <<(r * Base) \div d>> \o rest.digits, rem |-> rest.rem]

\* digits * n for a whole n >= 0, as digits of the same length and the carry
\* out of them.
RECURSIVE TimesDigits(_, _)
TimesDigits(digits, n) ==
    IF digits = <<>> THEN [digits |-> <<>>, carry |-> 0]
    ELSE LET r == TimesDigits(Tail(digits), n)
             t == Head(digits) * n + r.carry
         IN  [digits |-> <<t % Base>> \o r.digits, carry |-> t \div Base]

\* bits[i], 0 beyond the bits.
BitAt(bits, i) == IF i >= 1 /\ i <= Len(bits) THEN bits[i] ELSE 0

\* The bits of a sequence of digits.
DigitsToBits(digits) ==
    [i \in 1..(DigitBits * Len(digits)) |->
        (digits[(i - 1) \div DigitBits + 1]
            \div Pow2(DigitBits - 1 - ((i - 1) % DigitBits))) % 2]

\* The digits of a sequence of bits, zeros added after the last bit to fill
\* the last digit.
BitsToDigits(bits) ==
    [j \in 1..((Len(bits) + DigitBits - 1) \div DigitBits) |->
        LET k == DigitBits * (j - 1)
        IN  128 * BitAt(bits, k + 1) + 64 * BitAt(bits, k + 2)
            + 32 * BitAt(bits, k + 3) + 16 * BitAt(bits, k + 4)
            + 8 * BitAt(bits, k + 5) + 4 * BitAt(bits, k + 6)
            + 2 * BitAt(bits, k + 7) + BitAt(bits, k + 8)]

\* bits * n for a whole n > 0: the binary digits of the product from its
\* leading 1 on, and how many more digits it has before the point than bits.
TimesBits(bits, n) ==
    LET p == TimesDigits(BitsToDigits(bits), n)
        c == IF p.carry = 0 THEN <<>> ELSE DigitsToBits(<<p.carry \div (Base * Base),
                                                         (p.carry \div Base) % Base,
                                                         p.carry % Base>>)
        all == c \o DigitsToBits(p.digits)
        lead == Min({i \in 1..Len(all) : all[i] = 1})
    IN  [bits |-> SubSeq(all, lead, Len(all)), shift |-> Len(c) - lead + 1]

\* bits + 1, as bits of the same length and the carry out of them.
AddOne(bits) ==
    LET Z == {i \in 1..Len(bits) : bits[i] = 0}
    IN  IF Z = {} THEN [bits |-> [i \in 1..Len(bits) |-> 0], carry |-> 1]
        ELSE [bits |-> [i \in 1..Len(bits) |->
                          IF i < Max(Z) THEN bits[i] ELSE IF i = Max(Z) THEN 1 ELSE 0],
              carry |-> 0]

\* The number whose binary digits are bits.
RECURSIVE BitsValue(_)
BitsValue(bits) ==
    IF bits = <<>> THEN 0
    ELSE 2 * BitsValue(SubSeq(bits, 1, Len(bits) - 1)) + bits[Len(bits)]

\* The double nearest to the positive number with the binary digits bits
\* (the first one 1, of exponent exp) followed by nothing (sticky FALSE) or
\* by something more than zero (sticky TRUE): round to nearest, a tie to the
\* even significand.
RoundToDouble(sign, bits, sticky, exp) ==
    LET kept  == [i \in 1..Precision |-> BitAt(bits, i)]
        guard == BitAt(bits, Precision + 1)
        more  == sticky \/ \E i \in (Precision + 2)..Len(bits) : bits[i] = 1
        up    == guard = 1 /\ (more \/ kept[Precision] = 1)
        inc   == AddOne(kept)
    IN  IF ~up THEN [sign |-> sign, bits |-> kept, exp |-> exp]
        ELSE IF inc.carry = 1
        THEN [sign |-> sign, bits |-> <<1>> \o SubSeq(inc.bits, 1, Precision - 1),
              exp |-> exp + 1]
        ELSE [sign |-> sign, bits |-> inc.bits, exp |-> exp]

\* The double num / den of two whole numbers, den > 0 (the operator / of
\* main.js 233).
Quotient(num, den) ==
    IF num = 0 THEN Zero
    ELSE LET e == Exponent(Abs(num), den)
             a == Abs(num) * Pow2(-e)
             d == den * Pow2(e)
             q == QuotientDigits(a - d, d, (Precision + DigitBits) \div DigitBits)
         IN  RoundToDouble(IF num < 0 THEN -1 ELSE 1,
                           <<1>> \o DigitsToBits(q.digits), q.rem # 0, e)

\* The double x * n for a whole n >= 0 (the operator * of main.js 233).
Times(x, n) ==
    IF x.sign = 0 \/ n = 0 THEN Zero
    ELSE LET p == TimesBits(x.bits, n)
         IN  RoundToDouble(x.sign, p.bits, FALSE, x.exp + p.shift)

\* +x.toFixed(2) in hundredths: the whole n for which n / 100 - x is as
\* close to zero as possible, the larger n of two such for x >= 0, and the
\* same with the sign put back for x < 0.
ToFixed2(x) ==
    IF x.sign = 0 THEN 0
    ELSE LET p == TimesBits(x.bits, 100)
             w == x.exp + p.shift + 1
         IN  x.sign * (BitsValue([i \in 1..Max({w, 0}) |-> BitAt(p.bits, i)])
                       + BitAt(p.bits, w + 1))

\* PartialScore with the hundredths cut off instead of rounded.
PartialScoreTruncated(tests, errors, maxScore) ==
    (100 * (tests - errors) * maxScore) \div tests

\* The score of main.js 233-234: (testCount - errorCount) / testCount * maxScore.
PartialScore(tests, errors, maxScore) ==
    ToFixed2(Times(Quotient(tests - errors, tests), maxScore))

\* FailScore with the partial-credit flag ignored.
FailScoreAlwaysPartial(partialCredit, tests, errors, maxScore) ==
    PartialScore(tests, errors, maxScore)

\* The score of a failed run (main.js 231-238).
FailScore(partialCredit, tests, errors, maxScore) ==
    IF partialCredit THEN PartialScore(tests, errors, maxScore) ELSE 0

\* A number of hundredths as JavaScript prints the number.
NumStr(c) ==
    LET w == Abs(c) \div 100
        f == Abs(c) % 100
    IN  (IF c < 0 THEN "-" ELSE "") \o ToString(w) \o
        (IF f = 0 THEN ""
         ELSE IF f % 10 = 0 THEN "." \o ToString(f \div 10)
         ELSE IF f < 10 THEN ".0" \o ToString(f)
         ELSE "." \o ToString(f))

\* TestCount as the length of the marker line.
TestCountByLength(dots) == Len(dots)

\* dots.match(/\./g).length (main.js 228)
TestCount(dots) == CountIn(dots, {"."})

\* dots.match(/E/gi).length (main.js 229)
ErrorCount(dots) == CountIn(dots, {"E", "e"})

(***************************************************************************)
(* The inputs (main.js 13-26)                                              *)
(***************************************************************************)
\* The values of the max-score input the model draws from.
MaxScores == {0, 7, 10}

\* The values of the setup-command input: none, or a command.
SetupCommands == {"", "setup.sh"}

\* getInputs(): the record run, build and setup read.
getInputs(setupCommand, maxScore, partialCredit) ==
    [testName      |-> "JUnit",
     setupCommand  |-> setupCommand,
     maxScore      |-> maxScore,
     partialCredit |-> partialCredit,
     buildCommand  |-> "javac -cp \"lib/*\" -d . *.java",
     runCommand    |-> "java -cp \"lib/*:.\" org.junit.runner.JUnitCore FooTest"]

\* a || b for strings.
OrElse(a, b) == IF a = "" THEN b ELSE a

(***************************************************************************)
(* The result objects.  A test entry's score is in hundredths; hasScore    *)
(* tells whether the entry has a score property at all.  setOutput gets    *)
(* btoa(JSON.stringify(result)); the model keeps the result that string    *)
(* encodes, with markdown as the text btoa(markdown) encodes.              *)
(***************************************************************************)
NoScore == [hasScore |-> FALSE, score |-> 0]
WithScore(c) == [hasScore |-> TRUE, score |-> c]

\* The object literals of main.js 68-82, 134-148, 179-196 and 203-217.
Result(in, status, markdown, message, testCode, sc) ==
    [version   |-> 1,
     status    |-> status,
     max_score |-> in.maxScore,
     markdown  |-> markdown,
     tests     |-> <<[name           |-> OrElse(in.testName, "Unknown Test"),
                      status         |-> status,
                      message        |-> message,
                      test_code      |-> OrElse(testCode, "Unknown Command"),
                      filename       |-> "",
                      line_no        |-> 0,
                      execution_time |-> 0,
                      hasScore       |-> sc.hasScore,
                      score          |-> sc.score]>>]

\* The three backquotes that open and close a code block of the markdown,
\* which a TLA+ string cannot hold.
Fence == "[fence]"

\* " above for more details", after the test's name.
SeeAbove(in) == OrElse(in.testName, "Unknown Test") \o " above for more details"

(***************************************************************************)
(* What a child process left behind (the rs of spawnSync, the return value *)
(* or the error of execSync): the exit status (-1 when there is none),     *)
(* the error's message ("" when there is no error) and the two captured    *)
(* streams.  For the test run the record also keeps what the runner        *)
(* printed: its marker line and the bodies of its failure blocks.          *)
(***************************************************************************)
Outcome(stage, status, error, stdout, stderr, marker, blocks) ==
    [stage |-> stage, status |-> status, error |-> error, stdout |-> stdout,
     stderr |-> stderr, marker |-> marker, blocks |-> blocks]

NoOutcome == Outcome("none", 0, "", "", "", "", <<>>)

(***************************************************************************)
(* setup (main.js 34-94)                                                   *)
(***************************************************************************)
\* What spawnSync can return for the setup command: it ran and exited with
\* status 0 or 1, or rs.error is set (the command could not be started, or
\* it ran into the timeout).  stdio is 'ignore': rs.stdout and rs.stderr
\* are null.
SetupOutcomes ==
    {Outcome("setup", st, "", "", "", "", <<>>) : st \in {0, 1}}
    \cup
    {Outcome("setup", -1, e, "", "", "", <<>>) :
        e \in {"spawnSync setup.sh ENOENT", "spawnSync setup.sh ETIMEDOUT"}}

\* SetupFailed judged by the exit status instead of rs.error.
SetupFailedByStatus(r) == r.status = 1

\* if (rs.error)  (main.js 42)
SetupFailed(r) == r.error # ""

\* The result of main.js 68-82.
SetupResult(in, r) ==
    Result(in, "error",
           ":x: Error running setup command\n\nThis is probably something that your teacher needs to fix\n\n"
             \o Fence \o "shell\n" \o in.setupCommand \o "\n" \o Fence \o "\n\nError: " \o r.error,
           "Error running setup command, see " \o SeeAbove(in),
           in.setupCommand, NoScore)

(***************************************************************************)
(* build (main.js 101-155)                                                 *)
(***************************************************************************)
JavacError == "FooTest.java:3: error: ';' expected\n1 error\n"

\* What execSync can do for the build command: return (status 0), or throw
\* with the output of a compiler that exited with status 1, or throw on the
\* timeout with no output.
BuildOutcomes ==
    {Outcome("build", 0, "", "", "", "", <<>>),
     Outcome("build", 1, "Command failed", "", JavacError, "", <<>>),
     Outcome("build", 1, "Command failed",
             "Note: FooTest.java uses unchecked operations.\n", JavacError, "", <<>>),
     Outcome("build", -1, "spawnSync /bin/sh ETIMEDOUT", "", "", "", <<>>)}

\* execSync throws: the catch branch of build is taken.
BuildFailed(r) == r.status # 0

\* main.js 118-124 and 126-132: one captured stream, fenced, when not empty.
Fenced(text) == IF Len(text) > 0 THEN Fence \o "\n" \o Trim(text) \o "\n" \o Fence \o "\n\n" ELSE ""

\* The result of main.js 134-148.
BuildResult(in, r) ==
    Result(in, "error",
           ":x: Error building Java code\n\n" \o Fenced(r.stdout) \o Fenced(r.stderr),
           "Error building submitted code, see " \o SeeAbove(in),
           in.buildCommand, NoScore)

(***************************************************************************)
(* run (main.js 157-325)                                                   *)
(***************************************************************************)
\* The character U+2705 of main.js 176, which a TLA+ string cannot hold.
CheckMark == "[U+2705]"

\* The result of the try branch (main.js 174-196).
PassResult(in, dots) ==
    Result(in, "pass",
           CheckMark \o " " \o ToString(Len(dots)) \o " test"
             \o (IF Len(dots) > 1 THEN "s" ELSE "") \o " passed",
           "Tests passed", in.runCommand, WithScore(100 * in.maxScore))

\* The summary line of the markdown (main.js 241-247).
Summary(in, tests, errors, sc) ==
    IF tests = errors
    THEN ":x: All " \o ToString(tests) \o " tests failed (0 of "
         \o ToString(in.maxScore) \o " points)\n\n"
    ELSE ":x: " \o ToString(errors) \o " of " \o ToString(tests) \o " tests failed ("
         \o NumStr(sc) \o " of " \o ToString(in.maxScore) \o " points)\n\n"

\* main.js 310-316
ErrorOutput(stderr) ==
    IF Len(stderr) > 0
    THEN "\n\nError Output:\n\n" \o Fence \o "\n" \o Trim(stderr) \o "\n" \o Fence \o "\n\n"
    ELSE ""

\* The result of the catch branch (main.js 203-238 and 318).
FailResult(in, tests, errors, rows, stderr) ==
    Result(in, "error",
           Summary(in, tests, errors, FailScore(in.partialCredit, tests, errors, in.maxScore))
             \o HtmlTable(rows) \o ErrorOutput(stderr),
           "Error running tests, see " \o SeeAbove(in),
           in.runCommand,
           WithScore(FailScore(in.partialCredit, tests, errors, in.maxScore)))

\* The error the catch branch of run receives: the error of execSync, with
\* the captured streams, or the TypeError of match[2] on a null match in the
\* try branch (main.js 172), which has neither stdout nor stderr.
CaughtError(r) ==
    IF r.status # 0 THEN [stdout |-> r.stdout, stderr |-> r.stderr]
    ELSE [stdout |-> "", stderr |-> ""]

\* The try branch throws: execSync threw, or re.exec returned null and
\* match[2] raised a TypeError (main.js 159 and 172).
TryThrows(r) == r.status # 0 \/ ~ReExec(r.stdout).ok

\* stdOut of main.js 221.
StdOut(error) == Trim(error.stdout)

\* The catch branch throws in its turn: match is null (main.js 225), or
\* dots.match returns null because dots holds no "." or no "E"
\* (main.js 228-229).  Nothing catches it.
CatchThrows(error) ==
    \/ ~ReExec(StdOut(error)).ok
    \/ TestCount(ReExec(StdOut(error)).dots) = 0
    \/ ErrorCount(ReExec(StdOut(error)).dots) = 0

(***************************************************************************)
(* What the test run can print (org.junit.runner.JUnitCore, started by     *)
(* execSync at main.js 159): the version line, the marker line with a "."  *)
(* for each test started and an "E" for each failure, and after the run    *)
(* one numbered block for each failure.                                    *)
(***************************************************************************)
VersionLine == "JUnit version 4.13.2\n"
OldVersionLine == "JUnit version 4.12\n"

\* The glyphs of a marker line: "." when a test starts, "E" when one fails.
Glyphs == {".", "E"}

\* The marker lines of at most n glyphs.
RECURSIVE Markers(_)
Markers(n) ==
    IF n = 0 THEN {""}
    ELSE LET M == Markers(n - 1) IN M \cup {m \o g : m \in M, g \in Glyphs}

\* The marker lines of at most n tests that all passed.
Dots(n) == {m \in Markers(n) : CountIn(m, {"."}) = Len(m)}

\* The bodies of the failure blocks the model draws from.
AssertBody    == "java.lang.AssertionError: sum expected:<1> but was:<2>\n\tat FooTest.sum(FooTest.java:9)\n"
CompareBody   == "org.junit.ComparisonFailure: expected:<[a]> but was:<[b]>\n"
TwoAssertBody == "java.lang.AssertionError: a expected:<1> but was:<2>\nCaused by: java.lang.AssertionError: expected:<3> but was:<4>\n"
OtherKindBody == "org.opentest4j.AssertionFailedError: expected: <1> but was: <2>\n"
ArithBody     == "java.lang.ArithmeticException: / by zero\n\tat Foo.div(Foo.java:3)\n"
StateBody     == "java.lang.IllegalStateException: state: closed\n"
UtilBody      == "java.util.NoSuchElementException: empty\n"
TimedOutBody  == "org.junit.runners.model.TestTimedOutException: test timed out after 100 milliseconds\n"
ShortBody     == "java.lang.Error: boom\n"

Bodies ==
    {AssertBody, CompareBody, TwoAssertBody, OtherKindBody, ArithBody, StateBody,
     UtilBody, TimedOutBody}

\* The sequences of at most n bodies.
RECURSIVE BodySeqs(_)
BodySeqs(n) ==
    IF n = 0 THEN {<<>>}
    ELSE LET B == BodySeqs(n - 1) IN B \cup {Append(b, x) : b \in B, x \in Bodies}

\* n copies of one body.
Copies(body, n) == [k \in 1..n |-> body]

\* The marker line of one passed test and then n failed ones.
RECURSIVE FailedMarker(_)
FailedMarker(n) == IF n = 0 THEN "." ELSE FailedMarker(n - 1) \o ".E"

\* n copies of the text s, one after the other.
RECURSIVE Repeat(_, _)
Repeat(s, n) == IF n = 0 THEN "" ELSE s \o Repeat(s, n - 1)

\* The marker line of a suite of n tests whose last k tests fail.
SuiteMarker(n, k) == Repeat(".", n - k) \o Repeat(".E", k)

\* The numbered failure blocks, the first numbered i.
RECURSIVE BlockText(_, _)
BlockText(blocks, i) ==
    IF blocks = <<>> THEN ""
    ELSE ToString(i) \o ") test" \o ToString(i) \o "(FooTest)\n" \o Head(blocks)
         \o BlockText(Tail(blocks), i + 1)

\* The output of a run that ended with failures.
FailedText(version, marker, blocks) ==
    version \o marker \o "\nTime: 0.01\n"
    \o (IF Len(blocks) = 1 THEN "There was 1 failure:\n"
        ELSE "There were " \o ToString(Len(blocks)) \o " failures:\n")
    \o BlockText(blocks, 1) \o "\nFAILURES!!!\nTests run: "
    \o ToString(CountIn(marker, {"."})) \o ",  Failures: " \o ToString(Len(blocks)) \o "\n\n"

\* The output of a run in which every test passed.
PassedText(version, marker) ==
    version \o marker \o "\nTime: 0.01\n\nOK (" \o ToString(Len(marker))
    \o (IF Len(marker) = 1 THEN " test)\n\n" ELSE " tests)\n\n")

ClassNotFound == "Error: Could not find or load main class org.junit.runner.JUnitCore\n"

\* What execSync can do for the run command.
RunOutcomes ==
    \* the runner exits with status 1 after failures: every marker line with
    \* a failure glyph, one short block for each
    {Outcome("run", 1, "Command failed",
             FailedText(VersionLine, m, Copies(ShortBody, CountIn(m, {"E", "e"}))), "",
             m, Copies(ShortBody, CountIn(m, {"E", "e"}))) :
        m \in {x \in Markers(MaxMarker) : CountIn(x, {"E", "e"}) > 0}}
    \cup
    \* the same with every sequence of failure blocks
    {Outcome("run", 1, "Command failed",
             FailedText(VersionLine, FailedMarker(Len(b)), b), "",
             FailedMarker(Len(b)), b) :
        b \in BodySeqs(MaxBlocks) \ {<<>>}}
    \cup
    \* a larger suite: 40 tests of which the last 7, or the last 21, fail (with
    \* maxScore 7 the exact scores 5.775 and 3.325 lie halfway between two
    \* hundredths)
    {Outcome("run", 1, "Command failed",
             FailedText(VersionLine, SuiteMarker(40, k), Copies(ShortBody, k)), "",
             SuiteMarker(40, k), Copies(ShortBody, k)) : k \in {7, 21}}
    \cup
    \* the runner exits with status 0: every test passed, with either version line
    {Outcome("run", 0, "", PassedText(v, m), "", m, <<>>) :
        v \in {VersionLine, OldVersionLine}, m \in Dots(MaxMarker)}
    \cup
    \* the run is cut short (the tested code ends the process, or the timeout
    \* kills it) after the marker line so far
    {Outcome("run", st, "Command failed", VersionLine \o m, "", m, <<>>) :
        st \in {1, -1}, m \in Markers(MaxMarker)}
    \cup
    \* the run prints nothing (the runner's class is not found), or an older
    \* runner prints its version
    {Outcome("run", 1, "Command failed", "", ClassNotFound, "", <<>>),
     Outcome("run", -1, "spawnSync /bin/sh ETIMEDOUT", "", "", "", <<>>),
     Outcome("run", 1, "Command failed",
             FailedText(OldVersionLine, ".E", <<ShortBody>>), "", ".E", <<ShortBody>>)}

(***************************************************************************)
(* The program: main.js 331-337.  pc is the call the program is about to   *)
(* make; "done" is a normal exit, "crashed" an exit by an exception that   *)
(* nothing catches.  started lists the commands started so far, outputs    *)
(* the results handed to core.setOutput.                                   *)
(***************************************************************************)
Init ==
    /\ pc = "setup"
    /\ \E c \in SetupCommands, m \in MaxScores, p \in BOOLEAN :
           inputs = getInputs(c, m, p)
    /\ started = <<>>
    /\ rs = NoOutcome
    /\ testCount = 0
    /\ errorCount = 0
    /\ table = <<>>
    /\ outputs = <<>>

\* setup(inputs), and the branch on what it returns.
setup ==
    /\ pc = "setup"
    /\ IF inputs.setupCommand = ""
       THEN /\ pc' = "build"
            /\ UNCHANGED <<started, rs, outputs>>
       ELSE \E r \in SetupOutcomes :
              /\ rs' = r
              /\ started' = Append(started, "setup")
              /\ IF SetupFailed(r)
                 THEN /\ outputs' = Append(outputs, SetupResult(inputs, r))
                      /\ pc' = "done"
                 ELSE /\ outputs' = outputs
                      /\ pc' = "build"
    /\ UNCHANGED <<inputs, testCount, errorCount, table>>

\* build(inputs), and the branch on what it returns.
build ==
    /\ pc = "build"
    /\ \E r \in BuildOutcomes :
         /\ rs' = r
         /\ started' = Append(started, "build")
         /\ IF BuildFailed(r)
            THEN /\ outputs' = Append(outputs, BuildResult(inputs, r))
                 /\ pc' = "done"
            ELSE /\ outputs' = outputs
                 /\ pc' = "run"
    /\ UNCHANGED <<inputs, testCount, errorCount, table>>

\* run(inputs).
run ==
    /\ pc = "run"
    /\ \E r \in RunOutcomes :
         /\ rs' = r
         /\ started' = Append(started, "run")
         /\ IF ~TryThrows(r)
            THEN /\ outputs' = Append(outputs, PassResult(inputs, ReExec(r.stdout).dots))
                 /\ pc' = "done"
                 /\ UNCHANGED <<testCount, errorCount, table>>
            ELSE IF CatchThrows(CaughtError(r))
            THEN /\ pc' = "crashed"
                 /\ UNCHANGED <<testCount, errorCount, table, outputs>>
            ELSE /\ testCount' = TestCount(ReExec(StdOut(CaughtError(r))).dots)
                 /\ errorCount' = ErrorCount(ReExec(StdOut(CaughtError(r))).dots)
                 /\ table' = TableRows(Failures(StdOut(CaughtError(r))))
                 /\ outputs' = Append(outputs,
                                      FailResult(inputs, testCount', errorCount', table',
                                                 CaughtError(r).stderr))
                 /\ pc' = "done"
    /\ UNCHANGED inputs

Next == setup \/ build \/ run

Spec == Init /\ [][Next]_vars

(***************************************************************************)
(* The claims.                                                             *)
(***************************************************************************)
\* The process has ended, normally or by an uncaught exception.
Terminated == pc \in {"done", "crashed"}

\* The test run failed and its catch branch published a report.
FailedRunReported ==
    /\ pc = "done"
    /\ rs.stage = "run"
    /\ Len(outputs) = 1
    /\ outputs[1].status = "error"

\* The glyphs of a marker line that stand for a failure.
FailureGlyphs == {"E", "e"}

\* The report is that of a complete runner output: the runner exited with
\* status 1 after printing one failure block for each failure glyph.
CompleteFailureReported ==
    /\ FailedRunReported
    /\ rs.status = 1
    /\ Len(rs.blocks) > 0
    /\ Len(rs.blocks) = CountIn(rs.marker, FailureGlyphs)

\* needle occurs in hay.
Contains(hay, needle) ==
    needle = "" \/ \E i \in 1..Len(hay) : StartsAt(hay, i, needle)

\* s is a number of hundredths nearest to num / den (den > 0): one of the two
\* nearest when num / den lies halfway between them.
Nearest(s, num, den) == 2 * Abs(100 * num - s * den) <= den

\* C1: whatever the setup, the build and the test run do, the process ends
\* having published exactly one result.
C1_ExactlyOnePayload == Terminated => Len(outputs) = 1

\* C2 as stated: after a failing run with a marker line of length N holding k
\* failure glyphs, the total test count is N and the failed count is k.
C2_TotalIsMarkerLength ==
    CompleteFailureReported =>
        /\ testCount = Len(rs.marker)
        /\ errorCount = CountIn(rs.marker, FailureGlyphs)

\* C2 amended: after a failing run the total test count is the number of pass
\* glyphs (".") of the marker line, and the failed count is its number of
\* failure glyphs.
C2_TotalIsPassGlyphs ==
    FailedRunReported =>
        /\ testCount = CountIn(rs.marker, {"."})
        /\ errorCount = CountIn(rs.marker, FailureGlyphs)

\* C2 witness: a complete failing run with the marker line "..E.E" was
\* reported with a total of 3 and 2 failed.
C2_Witness ==
    /\ FailedRunReported
    /\ rs.marker = "..E.E"
    /\ rs.blocks # <<>>
    /\ testCount = 3
    /\ errorCount = 2

\* C3 as stated: with partial credit, a failing run with a marker line of
\* length N > 0 holding k failure glyphs, 0 < k <= N, is scored
\* (N - k) / N * maxScore rounded to two decimals; k = N gives 0 and "..E.E"
\* with maxScore 10 gives 6.00.
C3_ScoreOverMarkerLength ==
    LET N == Len(rs.marker)
        k == CountIn(rs.marker, FailureGlyphs)
        e == outputs[1].tests[1]
    IN  (CompleteFailureReported /\ inputs.partialCredit /\ 0 < k /\ k <= N) =>
            /\ e.hasScore
            /\ Nearest(e.score, (N - k) * inputs.maxScore, N)
            /\ (k = N => e.score = 0)
            /\ (rs.marker = "..E.E" /\ inputs.maxScore = 10 => e.score = 600)

\* C3 amended: with partial credit, a failing run whose marker line holds
\* d > 0 pass glyphs and k failure glyphs, 0 < k <= d, is scored a number of
\* hundredths nearest to (d - k) / d * maxScore; k = d gives 0 and "..E.E"
\* with maxScore 10 gives 3.33.  Where the exact value lies halfway between
\* two hundredths the score is the one the double computed for it is nearer
\* to, which need not be the upper one: 33 of 40 tests passed with maxScore
\* 7 (exactly 5.775) gives 5.77.
C3_ScoreOverPassGlyphs ==
    LET d == CountIn(rs.marker, {"."})
        k == CountIn(rs.marker, FailureGlyphs)
        e == outputs[1].tests[1]
    IN  (FailedRunReported /\ inputs.partialCredit /\ 0 < k /\ k <= d) =>
            /\ e.hasScore
            /\ Nearest(e.score, (d - k) * inputs.maxScore, d)
            /\ (k = d => e.score = 0)
            /\ (rs.marker = "..E.E" /\ inputs.maxScore = 10 => e.score = 333)
            /\ (d = 40 /\ k = 7 /\ inputs.maxScore = 7 => e.score = 577)

\* C3 witness: with partial credit and maxScore 10 the marker line "..E.E"
\* was scored 3.33.
C3_Witness ==
    /\ FailedRunReported
    /\ inputs.partialCredit
    /\ inputs.maxScore = 10
    /\ rs.marker = "..E.E"
    /\ outputs[1].tests[1].hasScore
    /\ outputs[1].tests[1].score = 333

\* C4: a published score is never below 0 and never above maxScore.
C4_ScoreInRange ==
    \A i \in 1..Len(outputs) :
        outputs[i].tests[1].hasScore =>
            /\ 0 <= outputs[i].tests[1].score
            /\ outputs[i].tests[1].score <= 100 * outputs[i].max_score

\* C5: without partial credit the published score is maxScore when no test
\* failed and 0 when a test failed, never a value in between.
C5_AllOrNothing ==
    \A i \in 1..Len(outputs) :
        (~inputs.partialCredit /\ outputs[i].tests[1].hasScore) =>
            /\ outputs[i].tests[1].score \in {0, 100 * inputs.maxScore}
            /\ CountIn(rs.marker, FailureGlyphs) = 0 =>
                   outputs[i].tests[1].score = 100 * inputs.maxScore
            /\ CountIn(rs.marker, FailureGlyphs) > 0 => outputs[i].tests[1].score = 0

\* C5 witness: without partial credit a run with one failed test of two was
\* scored 0 of 10.
C5_Witness ==
    /\ FailedRunReported
    /\ ~inputs.partialCredit
    /\ inputs.maxScore = 10
    /\ rs.marker = "..E"
    /\ outputs[1].tests[1].hasScore
    /\ outputs[1].tests[1].score = 0

\* C6: a test run that exits with status 0 and shows no test is reported as an
\* error whose entry carries neither the score 0 nor the score maxScore.
C6_ZeroTestsIsError ==
    (Terminated /\ rs.stage = "run" /\ rs.status = 0 /\ rs.marker = "") =>
        /\ Len(outputs) = 1
        /\ outputs[1].status = "error"
        /\ ~(/\ outputs[1].tests[1].hasScore
             /\ outputs[1].tests[1].score \in {0, 100 * inputs.maxScore})

\* The report of a stage that failed: an error with one entry and no score.
ErrorWithoutScore ==
    /\ Len(outputs) = 1
    /\ outputs[1].status = "error"
    /\ Len(outputs[1].tests) = 1
    /\ ~outputs[1].tests[1].hasScore

\* C7: the commands start in the order setup, build, run; after a setup
\* command that could not be started nothing else is started, after a build
\* that failed the test run is not started; either way the one report is an
\* error with a single entry and no score.
C7_FailedStageHalts ==
    /\ started \in {<<>>, <<"setup">>, <<"build">>, <<"setup", "build">>,
                    <<"build", "run">>, <<"setup", "build", "run">>}
    /\ (rs.stage = "setup" /\ rs.error # "") =>
           pc = "done" /\ started = <<"setup">> /\ ErrorWithoutScore
    /\ (rs.stage = "build" /\ rs.status # 0) =>
           pc = "done" /\ started[Len(started)] = "build" /\ ErrorWithoutScore
    /\ (\E i \in 1..Len(started) : started[i] = "run") =>
           rs.stage = "run"

\* C7 witness: the setup command could not be started, the error report was
\* published and nothing else was started.
C7_Witness ==
    /\ rs.stage = "setup"
    /\ rs.error = "spawnSync setup.sh ENOENT"
    /\ pc = "done"
    /\ started = <<"setup">>
    /\ ErrorWithoutScore

\* C8: a test run that exits with a failure and prints neither a marker line
\* nor a failure block is reported as an error with one entry without a
\* score, and the markdown holds the captured standard error.
C8_CrashIsReported ==
    (Terminated /\ rs.stage = "run" /\ rs.status # 0 /\ rs.marker = ""
        /\ rs.blocks = <<>>) =>
        /\ ErrorWithoutScore
        /\ Contains(outputs[1].markdown, rs.stderr)

\* The number of cells of each row.
RowShapes(rows) == [i \in 1..Len(rows) |-> Len(rows[i])]

\* The shapes C9 gives the rows of the blocks: three cells for each match of
\* an assertion kind, else one row of a single cell.
RECURSIVE ClaimedShapes(_)
ClaimedShapes(blocks) ==
    IF blocks = <<>> THEN <<>>
    ELSE (IF Len(MatchAll(Head(blocks), 1)) > 0
          THEN [i \in 1..Len(MatchAll(Head(blocks), 1)) |-> 3]
          ELSE <<1>>)
         \o ClaimedShapes(Tail(blocks))

\* C9: the text before the first header adds no row, and every failure block
\* adds, in order, one row of three cells for each match of an assertion kind,
\* and otherwise exactly one row of a single cell.
C9_RowsPerBlock ==
    FailedRunReported => RowShapes(table) = ClaimedShapes(rs.blocks)

\* A character of a dotted class name.
IsNameCh(c) ==
    \/ c \in {".", "_", "$"}
    \/ IsDigit(c)
    \/ \E k \in 1..Len(LowerLetters) : Ch(LowerLetters, k) = LowerCh(c)

\* The message C10 gives a block: its first non-blank line, trimmed, without
\* the leading dotted class name and the first colon, which ends that name.
ClaimedMessage(block) ==
    LET line == Trim(FirstLine(Trim(block)))
        C    == {c \in 1..Len(line) : Ch(line, c) = ":"}
    IN  IF /\ C # {}
           /\ Min(C) > 1
           /\ \A j \in 1..(Min(C) - 1) : IsNameCh(Ch(line, j))
           /\ \E j \in 1..(Min(C) - 1) : Ch(line, j) = "."
        THEN Trim(Sub(line, Min(C) + 1, Len(line)))
        ELSE line

\* The messages C10 gives the blocks that have no expected shape.
RECURSIVE ClaimedMessages(_)
ClaimedMessages(blocks) ==
    IF blocks = <<>> THEN <<>>
    ELSE (IF HasExpectedShape(Head(blocks)) THEN <<>>
          ELSE <<ClaimedMessage(Head(blocks))>>)
         \o ClaimedMessages(Tail(blocks))

\* The contents of the rows of a single cell.
RECURSIVE SingleCells(_)
SingleCells(rows) ==
    IF rows = <<>> THEN <<>>
    ELSE (IF Len(Head(rows)) = 1 THEN <<Head(rows)[1]>> ELSE <<>>)
         \o SingleCells(Tail(rows))

\* C10: the row of a block without the expected shape holds the block's first
\* non-blank line, trimmed, less the leading class name of any package and
\* the colon that ends it; what follows that colon is kept.
C10_MessageKeepsText ==
    FailedRunReported => SingleCells(table) = ClaimedMessages(rs.blocks)

====
